---- MODULE Spec2Model ----
(***************************************************************************)
(* A model of gh-service: the GitHub API client wrapper                    *)
(* (src/github/mod.rs) and the HTTP server stub (src/main.rs).             *)
(*                                                                         *)
(* Strings are sequences.  An API key is a sequence of bytes (integers),   *)
(* because HeaderValue::from_str decides validity byte by byte.  URLs,     *)
(* paths and JSON string values are sequences of text fragments, so that   *)
(* format!("{}/repos/{}", ..) is a real concatenation.                     *)
(***************************************************************************)
EXTENDS Integers, Sequences, FiniteSets, TLC

\* ------------------------------------------------------------------ bounds
MaxKeyLen == 1
MaxMembers == 3
NumTasks == 2
MaxCalls == 3
MaxRequests == 3

\* ----------------------------------------------------------- small helpers
RECURSIVE SeqsUpTo(_, _)
SeqsUpTo(S, n) ==
    IF n = 0 THEN {<<>>}
    ELSE LET shorter == SeqsUpTo(S, n - 1)
         IN  shorter \cup {Append(s, x) : s \in {q \in shorter : Len(q) = n - 1}, x \in S}

None == [some |-> FALSE, v |-> <<>>]
Some(x) == [some |-> TRUE, v |-> x]

\* --------------------------------------------------------------- constants
BASE_URL == <<"https://api.github.com">>

MockUri == <<"http://127.0.0.1:8080">>

TokenPrefix == <<116, 111, 107, 101, 110, 32>>   \* the bytes of "token "

\* ------------------------------------------------------------ GHAPIError
ClientCreationFailed == "ClientCreationFailed"
RequestFailed == "RequestFailed"
ResponseUnsuccessful == "ResponseUnsuccessful"
FailedToDeserialize == "FailedToDeserialize"

GHAPIError == {ClientCreationFailed, RequestFailed, ResponseUnsuccessful, FailedToDeserialize}

\* Err(kind, msg): msg is the String carried by ResponseUnsuccessful, <<>> otherwise.
Err(kind, msg) == [tag |-> "Err", kind |-> kind, msg |-> msg, repo |-> <<>>]
Ok(repo) == [tag |-> "Ok", kind |-> "", msg |-> <<>>, repo |-> <<repo>>]
Pending == [tag |-> "Pending", kind |-> "", msg |-> <<>>, repo |-> <<>>]

\* ------------------------------------------------------- default_headers
\* HeaderValue::from_str accepts a byte b iff (b >= 32 and b /= 127) or b = '\t'.
IsValidHeaderByte(b) == (b >= 32 /\ b # 127) \/ b = 9

HeaderValueFromStrOk(val) == \A i \in 1..Len(val) : IsValidHeaderByte(val[i])

\* format!("token {}", api_key)
AuthValue(api_key) == TokenPrefix \o api_key

default_headers(api_key) ==
    [Authorization |-> AuthValue(api_key),
     UserAgent     |-> <<"gh-api-service">>,
     Accept        |-> <<"application/json">>]

NoHeaders == [Authorization |-> <<>>, UserAgent |-> <<>>, Accept |-> <<>>]
NoClient == [base_url |-> <<>>, headers |-> NoHeaders]

\* base_url.unwrap_or_else(|| BASE_URL.into())
UnwrapOrBase(base_url) == IF base_url.some THEN base_url.v ELSE BASE_URL

\* ------------------------------------------------- JSON bodies (abstract)
\* A body is what the server put after the headers: text that is not JSON,
\* a JSON scalar, a JSON object (its members in document order, names may
\* repeat) or a JSON array.
Str(s) == [t |-> "str", s |-> s]
Null == [t |-> "null", s |-> <<>>]
Num == [t |-> "num", s |-> <<>>]

Member(k, v) == [k |-> k, v |-> v]

TextBody == [kind |-> "text", items |-> <<>>]
EmptyBody == [kind |-> "empty", items |-> <<>>]
ScalarBody == [kind |-> "scalar", items |-> <<>>]
ObjectBody(members) == [kind |-> "object", items |-> members]
ArrayBody(elems) == [kind |-> "array", items |-> elems]

\* ------------------------------------------------------------- Repository
Repository(full_name, description, html_url) ==
    [full_name |-> full_name, description |-> description, html_url |-> html_url]

DeErr == [ok |-> FALSE, repo |-> <<>>]
DeOk(repo) == [ok |-> TRUE, repo |-> <<repo>>]

\* The field slots of the derived visitor, all unset.
EmptySlots == [full_name   |-> [set |-> FALSE, v |-> <<>>],
               description |-> [set |-> FALSE, v |-> None],
               html_url    |-> [set |-> FALSE, v |-> <<>>]]

\* Option<String>: null is None, a string is Some, anything else an error.
OptionStringOk(v) == v.t \in {"str", "null"}
OptionString(v) == IF v.t = "str" THEN Some(v.s) ELSE None

\* FinishMap as it would be with `description: String`: an absent
\* description is an error too.
FinishMapDescriptionRequired(slots) ==
    IF ~slots.full_name.set \/ ~slots.html_url.set \/ ~slots.description.set THEN DeErr
    ELSE DeOk(Repository(slots.full_name.v, slots.description.v, slots.html_url.v))

\* FinishMap as it would be with #[serde(default)] on the struct: an absent
\* String field is the empty string.
FinishMapDefaults(slots) ==
    DeOk(Repository(slots.full_name.v, slots.description.v, slots.html_url.v))

\* After the last member: a missing String field is an error, a missing
\* Option field is None.
FinishMap(slots) ==
    IF ~slots.full_name.set \/ ~slots.html_url.set THEN DeErr
    ELSE DeOk(Repository(slots.full_name.v, slots.description.v, slots.html_url.v))

\* #[derive(Deserialize)] visit_map: members in document order; a repeated
\* field name is an error, an unknown name is skipped whatever its value.
RECURSIVE VisitMap(_, _, _)
VisitMap(members, i, slots) ==
    IF i > Len(members) THEN FinishMap(slots)
    ELSE LET m == members[i] IN
         CASE m.k = "full_name" ->
                IF slots.full_name.set \/ m.v.t # "str" THEN DeErr
                ELSE VisitMap(members, i + 1,
                              [slots EXCEPT !.full_name = [set |-> TRUE, v |-> m.v.s]])
           [] m.k = "description" ->
                IF slots.description.set \/ ~OptionStringOk(m.v) THEN DeErr
                ELSE VisitMap(members, i + 1,
                              [slots EXCEPT !.description = [set |-> TRUE, v |-> OptionString(m.v)]])
           [] m.k = "html_url" ->
                IF slots.html_url.set \/ m.v.t # "str" THEN DeErr
                ELSE VisitMap(members, i + 1,
                              [slots EXCEPT !.html_url = [set |-> TRUE, v |-> m.v.s]])
           [] OTHER -> VisitMap(members, i + 1, slots)

\* #[derive(Deserialize)] visit_seq: the fields in declaration order, one
\* element each; too few or too many elements is an error.
VisitSeq(elems) ==
    IF Len(elems) # 3 THEN DeErr
    ELSE IF elems[1].t # "str" \/ ~OptionStringOk(elems[2]) \/ elems[3].t # "str" THEN DeErr
    ELSE DeOk(Repository(elems[1].s, OptionString(elems[2]), elems[3].s))

\* serde_json::from_slice::<Repository>: a struct is read from an object or
\* from an array; anything else is an error.
DeserializeRepository(body) ==
    CASE body.kind = "object" -> VisitMap(body.items, 1, EmptySlots)
      [] body.kind = "array"  -> VisitSeq(body.items)
      [] OTHER                -> DeErr

\* ---------------------------------------------------------- HTTP responses
\* StatusCode::is_success
IsSuccess(status) == 200 <= status /\ status < 300

\* What the remote end does with a request: the transport fails ("error"),
\* or a response arrives whose body may or may not be readable to its end.
TransportError == [kind |-> "error", status |-> 0, readable |-> FALSE, body |-> EmptyBody]
Response(status, readable, body) ==
    [kind |-> "response", status |-> status, readable |-> readable, body |-> body]
NoResponse == [kind |-> "none", status |-> 0, readable |-> FALSE, body |-> EmptyBody]

\* RequestUrl with the "/repos" segment forgotten.
RequestUrlNoRepos(base_url, path) == base_url \o <<"/">> \o path

\* format!("{}/repos/{}", self.base_url, path)
RequestUrl(base_url, path) == base_url \o <<"/repos/">> \o path

\* TextOutcome with the body deserialized before the status is looked at.
TextOutcomeJsonFirst(resp) ==
    IF ~resp.readable THEN Err(FailedToDeserialize, <<>>)
    ELSE LET d == DeserializeRepository(resp.body)
         IN  IF d.ok THEN Ok(d.repo[1]) ELSE Err(ResponseUnsuccessful, <<resp.body>>)

\* TextOutcome with a failed body read reported as an empty error message.
TextOutcomeEmptyMessage(resp) ==
    IF resp.readable THEN Err(ResponseUnsuccessful, <<resp.body>>)
    ELSE Err(ResponseUnsuccessful, <<>>)

\* The non-2xx branch: resp.text() then ResponseUnsuccessful(body).
TextOutcome(resp) ==
    IF resp.readable THEN Err(ResponseUnsuccessful, <<resp.body>>)
    ELSE Err(FailedToDeserialize, <<>>)

\* The 2xx branch: resp.json::<Repository>().
JsonOutcome(resp) ==
    IF ~resp.readable THEN Err(FailedToDeserialize, <<>>)
    ELSE LET d == DeserializeRepository(resp.body)
         IN  IF d.ok THEN Ok(d.repo[1]) ELSE Err(FailedToDeserialize, <<>>)

\* ------------------------------------------------------------ input sets
\* Key bytes: a letter, a space and a tab (allowed in a header value), and a
\* line feed, a unit separator and DEL (not allowed).
KeyBytes == {9, 10, 31, 32, 97, 127}
ApiKeys == SeqsUpTo(KeyBytes, MaxKeyLen)

BaseUrlArgs == {None, Some(MockUri)}

P1 == <<"tarkalabs/ssh-signer">>
P2 == <<"vagmi/gh-service">>
Paths == {P1, P2}

HtmlUrl == <<"https://github.com/tarkalabs/ssh-signer">>
Descr == <<"An SSH certificate signer">>

Statuses == {199, 200, 299, 300, 404}

ObjMembers ==
    {Member("full_name", Str(P1)), Member("full_name", Num),
     Member("description", Str(Descr)), Member("description", Null),
     Member("description", Num),
     Member("html_url", Str(HtmlUrl)), Member("html_url", Null),
     Member("message", Str(<<"Not Found">>))}

ArrElems == {Str(P1), Str(HtmlUrl), Null, Num}

RichBodies ==
    {TextBody, EmptyBody, ScalarBody}
    \cup {ObjectBody(m) : m \in SeqsUpTo(ObjMembers, MaxMembers)}
    \cup {ArrayBody(e) : e \in SeqsUpTo(ArrElems, MaxMembers)}

RichPool ==
    {TransportError}
    \cup {Response(st, TRUE, b) : st \in Statuses, b \in RichBodies}
    \cup {Response(st, FALSE, TextBody) : st \in Statuses}

GoodBody(name) ==
    ObjectBody(<<Member("full_name", Str(name)), Member("description", Null),
                 Member("html_url", Str(HtmlUrl))>>)
NotFoundBody == ObjectBody(<<Member("message", Str(<<"Not Found">>))>>)

SmallPool ==
    {TransportError,
     Response(200, TRUE, GoodBody(P1)), Response(200, TRUE, GoodBody(P2)),
     Response(200, TRUE, NotFoundBody),
     Response(404, TRUE, NotFoundBody), Response(404, FALSE, TextBody)}

Tasks == 1..NumTasks

\* ------------------------------------------------------------------ state
VARIABLES
    newArgs,      \* the arguments GithubAPI::new was called with
    newOutcome,   \* "none" before the call; then "Ok", ClientCreationFailed or "panic"
    gapi,         \* the GithubAPI value: base_url and the client's default headers
    tk,           \* per task: where its get_repository_details call stands
    remote,       \* what the remote end answers, per URL asked so far
    calls,        \* get_repository_details calls started
    wire,         \* GET requests handed to the transport
    history,      \* the finished calls: path, url and result
    server,       \* "starting", "serving" or "crashed"
    conns         \* per connection: the request and, once answered, the response

clientVars == <<newArgs, newOutcome, gapi, tk, remote, calls, wire, history>>
serverVars == <<server, conns>>
vars == <<newArgs, newOutcome, gapi, tk, remote, calls, wire, history, server, conns>>

IdleTask == [pc |-> "idle", path |-> <<>>, url |-> <<>>, headers |-> NoHeaders,
             resp |-> NoResponse, result |-> Pending]

NoRequest == [st |-> "none", method |-> "", path |-> "", status |-> 0, body |-> "",
              by |-> ""]

Init ==
    /\ newArgs = [api_key |-> <<>>, base_url |-> None]
    /\ newOutcome = "none"
    /\ gapi = NoClient
    /\ tk = [t \in Tasks |-> IdleTask]
    /\ remote = <<>>
    /\ calls = 0
    /\ wire = 0
    /\ history = {}
    /\ server = "starting"
    /\ conns = [c \in 1..MaxRequests |-> NoRequest]

\* ---------------------------------------------------------- GithubAPI::new
\* default_headers(api_key) is evaluated first and unwraps from_str: an
\* invalid value panics.  build_ok is whether reqwest's builder succeeds.
NewOutcome(api_key, build_ok) ==
    IF ~HeaderValueFromStrOk(AuthValue(api_key)) THEN "panic"
    ELSE IF ~build_ok THEN ClientCreationFailed
    ELSE "Ok"

New(api_key, base_url, build_ok) ==
    /\ newOutcome = "none"
    /\ newArgs' = [api_key |-> api_key, base_url |-> base_url]
    /\ newOutcome' = NewOutcome(api_key, build_ok)
    /\ gapi' = IF NewOutcome(api_key, build_ok) = "Ok"
               THEN [base_url |-> UnwrapOrBase(base_url), headers |-> default_headers(api_key)]
               ELSE NoClient
    /\ UNCHANGED <<tk, remote, calls, wire, history, server, conns>>

\* ------------------------------------------ GithubAPI::get_repository_details
Finished(t, tasks) == [path |-> tasks[t].path, url |-> tasks[t].url, result |-> tasks[t].result]

\* Call with a result cache in the client: a path seen before is answered
\* from the cache and nothing is sent.
CallCached(t, path) ==
    /\ newOutcome = "Ok"
    /\ tk[t].pc = "idle"
    /\ calls < MaxCalls
    /\ calls' = calls + 1
    /\ IF \E h \in history : h.path = path
       THEN /\ tk' = [tk EXCEPT ![t] =
                        [IdleTask EXCEPT !.pc = "done", !.path = path,
                                         !.url = RequestUrl(gapi.base_url, path),
                                         !.headers = gapi.headers,
                                         !.result = (CHOOSE h \in history : h.path = path).result]]
            /\ wire' = wire
       ELSE /\ tk' = [tk EXCEPT ![t] = [IdleTask EXCEPT !.pc = "send", !.path = path,
                                                        !.url = RequestUrl(gapi.base_url, path),
                                                        !.headers = gapi.headers]]
            /\ wire' = wire + 1
    /\ UNCHANGED <<newArgs, newOutcome, gapi, remote, history, server, conns>>

\* self.client.get(format!(..)).send(): the request leaves with the client's
\* default headers and the task suspends.
Call(t, path) ==
    /\ newOutcome = "Ok"
    /\ tk[t].pc = "idle"
    /\ calls < MaxCalls
    /\ tk' = [tk EXCEPT ![t] = [IdleTask EXCEPT !.pc = "send", !.path = path,
                                                !.url = RequestUrl(gapi.base_url, path),
                                                !.headers = gapi.headers]]
    /\ calls' = calls + 1
    /\ wire' = wire + 1
    /\ UNCHANGED <<newArgs, newOutcome, gapi, remote, history, server, conns>>

\* The remote end answers a URL the same way every time it is asked.
Answers(url, tmpl) == url \in DOMAIN remote => remote[url] = tmpl

\* AfterSend as it would be with .error_for_status() chained to send(): a
\* non-2xx status is reported as a failed request.
AfterSendErrorForStatus(task, tmpl) ==
    IF tmpl.kind = "error" \/ ~IsSuccess(tmpl.status)
    THEN [task EXCEPT !.pc = "done", !.result = Err(RequestFailed, <<>>)]
    ELSE [task EXCEPT !.pc = "json", !.resp = tmpl]

\* After send().await: `?` on a transport error, else the status check
\* picks the branch and the task suspends again on the body.
AfterSend(task, tmpl) ==
    IF tmpl.kind = "error"
    THEN [task EXCEPT !.pc = "done", !.result = Err(RequestFailed, <<>>)]
    ELSE [task EXCEPT !.pc = IF IsSuccess(tmpl.status) THEN "json" ELSE "text",
                      !.resp = tmpl]

SendDone(t, pool) ==
    /\ tk[t].pc = "send"
    /\ \E tmpl \in pool :
        /\ Answers(tk[t].url, tmpl)
        /\ remote' = (tk[t].url :> tmpl) @@ remote
        /\ tk' = [tk EXCEPT ![t] = AfterSend(tk[t], tmpl)]
        /\ history' = IF tmpl.kind = "error" THEN history \cup {Finished(t, tk')} ELSE history
    /\ UNCHANGED <<newArgs, newOutcome, gapi, calls, wire, server, conns>>

\* OwnResponse with the response kept in one slot shared by all tasks: the
\* body is read from whatever response the first task holds.
SharedResponse(t, tasks) ==
    IF tasks[1].resp.kind = "response" THEN tasks[1].resp ELSE tasks[t].resp

\* The response a task reads its body from: its own.
OwnResponse(t, tasks) == tasks[t].resp

\* After text().await or json().await.
BodyDone(t) ==
    /\ tk[t].pc \in {"text", "json"}
    /\ tk' = [tk EXCEPT ![t].pc = "done",
                        ![t].result = IF tk[t].pc = "text"
                                      THEN TextOutcome(OwnResponse(t, tk))
                                      ELSE JsonOutcome(OwnResponse(t, tk))]
    /\ history' = history \cup {Finished(t, tk')}
    /\ UNCHANGED <<newArgs, newOutcome, gapi, remote, calls, wire, server, conns>>

\* The caller has its result; the task may call again.
Return(t) ==
    /\ tk[t].pc = "done"
    /\ tk' = [tk EXCEPT ![t] = IdleTask]
    /\ UNCHANGED <<newArgs, newOutcome, gapi, remote, calls, wire, history, server, conns>>

\* ------------------------------------------------------------- main.rs
\* async fn handler() -> String
handler == "hello world"

Methods == {"GET", "HEAD", "POST"}
ReqPaths == {"/", "/repos", "/hello"}

\* Route with the handler installed as the fallback of every path.
RouteAnyPath(method, path) ==
    IF method = "GET" THEN [status |-> 200, body |-> handler, by |-> "handler"]
    ELSE IF method = "HEAD" THEN [status |-> 200, body |-> "", by |-> "handler"]
    ELSE [status |-> 405, body |-> "", by |-> "framework"]

\* Router::new().route("/", get(handler)): GET on "/" runs the handler, and
\* so does HEAD, with the body stripped; another method on "/" is 405 and
\* any other path 404, both from the framework.
Route(method, path) ==
    IF path = "/"
    THEN IF method = "GET" THEN [status |-> 200, body |-> handler, by |-> "handler"]
         ELSE IF method = "HEAD" THEN [status |-> 200, body |-> "", by |-> "handler"]
         ELSE [status |-> 405, body |-> "", by |-> "framework"]
    ELSE [status |-> 404, body |-> "", by |-> "framework"]

\* Server::bind(&addr): the bind succeeds, or the process dies.
Bind(ok) ==
    /\ server = "starting"
    /\ server' = IF ok THEN "serving" ELSE "crashed"
    /\ UNCHANGED <<newArgs, newOutcome, gapi, tk, remote, calls, wire, history, conns>>

Accept(c, method, path) ==
    /\ server = "serving"
    /\ conns[c].st = "none"
    /\ conns' = [conns EXCEPT ![c] = [NoRequest EXCEPT !.st = "pending", !.method = method,
                                                       !.path = path]]
    /\ UNCHANGED <<newArgs, newOutcome, gapi, tk, remote, calls, wire, history, server>>

Respond(c) ==
    /\ server = "serving"
    /\ conns[c].st = "pending"
    /\ LET r == Route(conns[c].method, conns[c].path)
       IN  conns' = [conns EXCEPT ![c].st = "answered", ![c].status = r.status,
                                  ![c].body = r.body, ![c].by = r.by]
    /\ UNCHANGED <<newArgs, newOutcome, gapi, tk, remote, calls, wire, history, server>>

\* --------------------------------------------------------- specifications
\* One client, one call, any response.
Next ==
    \/ \E k \in ApiKeys, b \in BaseUrlArgs, ok \in BOOLEAN : New(k, b, ok)
    \/ \E p \in Paths : Call(1, p)
    \/ SendDone(1, RichPool)
    \/ BodyDone(1)

Spec == Init /\ [][Next]_vars

\* One client shared by concurrent tasks that call repeatedly.
ConcNext ==
    \/ \E k \in ApiKeys, b \in BaseUrlArgs, ok \in BOOLEAN : New(k, b, ok)
    \/ \E t \in Tasks, p \in Paths : Call(t, p)
    \/ \E t \in Tasks : SendDone(t, SmallPool)
    \/ \E t \in Tasks : BodyDone(t)
    \/ \E t \in Tasks : Return(t)

ConcSpec == Init /\ [][ConcNext]_vars

\* The server stub.
ServerNext ==
    \/ \E ok \in BOOLEAN : Bind(ok)
    \/ \E c \in 1..MaxRequests, m \in Methods, p \in ReqPaths : Accept(c, m, p)
    \/ \E c \in 1..MaxRequests : Respond(c)

ServerSpec == Init /\ [][ServerNext]_vars

\* ------------------------------------------------------------------ claims
Done(t) == tk[t].pc = "done"

\* What the remote end answered to the request of task t.
Got(t) == remote[tk[t].url]
Answered(t) == tk[t].url \in DOMAIN remote /\ Got(t).kind = "response"

Is2xx(status) == status \in 200..299

\* The places where a name occurs in a JSON object.
Places(body, k) == {i \in DOMAIN body.items : body.items[i].k = k}
ValueAt(body, i) == body.items[i].v

\* A JSON object with a string full_name, a string html_url and a
\* description that is a string, null or absent.
WellFormed(body) ==
    /\ body.kind = "object"
    /\ Places(body, "full_name") # {}
    /\ Places(body, "html_url") # {}
    /\ \A i \in Places(body, "full_name") \cup Places(body, "html_url") :
          ValueAt(body, i).t = "str"
    /\ \A i \in Places(body, "description") : ValueAt(body, i).t \in {"str", "null"}

NamesOnce(body) ==
    \A k \in {"full_name", "description", "html_url"} : Cardinality(Places(body, k)) <= 1

\* C1: GithubAPI::new with an API key that is not a valid header value ends
\* by returning ClientCreationFailed, and in no other way.
C1_InvalidKeyFails ==
    (newOutcome # "none" /\ \E i \in DOMAIN newArgs.api_key :
                               (newArgs.api_key[i] = 127
                                \/ (newArgs.api_key[i] < 32 /\ newArgs.api_key[i] # 9)))
        => newOutcome = ClientCreationFailed

\* C2: a response with a status outside 200-299 and a readable body makes the
\* call fail with ResponseUnsuccessful carrying exactly that body, whatever
\* the body is; no Repository is returned.
C2_NonSuccessCarriesBody ==
    \A t \in Tasks :
        (Done(t) /\ Answered(t) /\ ~Is2xx(Got(t).status) /\ Got(t).readable)
            => /\ tk[t].result.tag = "Err"
               /\ tk[t].result.kind = ResponseUnsuccessful
               /\ tk[t].result.msg = <<Got(t).body>>

C2_Witness ==
    /\ Done(1) /\ Answered(1)
    /\ Got(1).status = 404 /\ Got(1).readable
    /\ Got(1).body = GoodBody(P1)
    /\ tk[1].result.kind = ResponseUnsuccessful

\* C3 as stated: every 2xx response whose JSON body has a string full_name, a
\* string html_url and a description that is a string, null or absent yields
\* a Repository with those values.
C3_Original ==
    \A t \in Tasks :
        (Done(t) /\ Answered(t) /\ Is2xx(Got(t).status) /\ Got(t).readable
                 /\ WellFormed(Got(t).body))
            => /\ tk[t].result.tag = "Ok"
               /\ \E i \in Places(Got(t).body, "full_name") :
                     tk[t].result.repo[1].full_name = ValueAt(Got(t).body, i).s
               /\ \E i \in Places(Got(t).body, "html_url") :
                     tk[t].result.repo[1].html_url = ValueAt(Got(t).body, i).s

\* C3 as amended: the same, for bodies in which none of the three names
\* occurs twice; the Repository carries the body's full_name and html_url,
\* the description as Some(string) or None (null or absent), and a full_name
\* equal to the requested path comes back equal to the requested path.
ExpectedDescription(body) ==
    IF \E i \in Places(body, "description") : ValueAt(body, i).t = "str"
    THEN Some(ValueAt(body, CHOOSE i \in Places(body, "description") : TRUE).s)
    ELSE None

C3_WellFormedYieldsRepository ==
    \A t \in Tasks :
        (Done(t) /\ Answered(t) /\ Is2xx(Got(t).status) /\ Got(t).readable
                 /\ WellFormed(Got(t).body) /\ NamesOnce(Got(t).body))
            => LET body == Got(t).body
                   fn == ValueAt(body, CHOOSE i \in Places(body, "full_name") : TRUE).s
                   hu == ValueAt(body, CHOOSE i \in Places(body, "html_url") : TRUE).s
               IN  /\ tk[t].result.tag = "Ok"
                   /\ tk[t].result.repo[1].full_name = fn
                   /\ tk[t].result.repo[1].html_url = hu
                   /\ tk[t].result.repo[1].description = ExpectedDescription(body)
                   /\ fn = tk[t].path => tk[t].result.repo[1].full_name = tk[t].path

C3_Witness ==
    /\ Done(1) /\ Answered(1)
    /\ Got(1).status = 200 /\ Got(1).readable
    /\ Got(1).body = ObjectBody(<<Member("message", Str(<<"Not Found">>)),
                                  Member("html_url", Str(HtmlUrl)),
                                  Member("full_name", Str(P1))>>)
    /\ tk[1].path = P1
    /\ tk[1].result = Ok(Repository(P1, None, HtmlUrl))

\* C4 as stated: every 2xx response whose body does not match the expected
\* shape (full_name or html_url missing, a required field of the wrong type,
\* or not JSON at all) fails with FailedToDeserialize.
ShapeMismatch(body) ==
    \/ body.kind # "object"
    \/ Places(body, "full_name") = {}
    \/ Places(body, "html_url") = {}
    \/ \E i \in Places(body, "full_name") \cup Places(body, "html_url") :
          ValueAt(body, i).t # "str"

C4_Original ==
    \A t \in Tasks :
        (Done(t) /\ Answered(t) /\ Is2xx(Got(t).status) /\ Got(t).readable
                 /\ ShapeMismatch(Got(t).body))
            => /\ tk[t].result.tag = "Err"
               /\ tk[t].result.kind = FailedToDeserialize

\* C4 as amended: the same, except for a body that is a JSON array of exactly
\* three elements, a string, a string or null, and a string: that one is read
\* as the three fields in declaration order and yields a Repository.
PositionalRepository(body) ==
    /\ body.kind = "array"
    /\ Len(body.items) = 3
    /\ body.items[1].t = "str"
    /\ body.items[2].t \in {"str", "null"}
    /\ body.items[3].t = "str"

C4_MismatchFailsToDeserialize ==
    \A t \in Tasks :
        (Done(t) /\ Answered(t) /\ Is2xx(Got(t).status) /\ Got(t).readable
                 /\ ShapeMismatch(Got(t).body))
            => IF PositionalRepository(Got(t).body)
               THEN tk[t].result = Ok(Repository(Got(t).body.items[1].s,
                                                 IF Got(t).body.items[2].t = "str"
                                                 THEN Some(Got(t).body.items[2].s) ELSE None,
                                                 Got(t).body.items[3].s))
               ELSE tk[t].result = Err(FailedToDeserialize, <<>>)

C4_Witness ==
    /\ Done(1) /\ Answered(1)
    /\ Got(1).status = 200 /\ Got(1).readable
    /\ Got(1).body = ObjectBody(<<Member("description", Null),
                                  Member("html_url", Str(HtmlUrl))>>)
    /\ tk[1].result = Err(FailedToDeserialize, <<>>)

\* C5: the call fails with RequestFailed when the send obtains no response,
\* and only then: once a response has been received the outcome is a
\* Repository, ResponseUnsuccessful or FailedToDeserialize.
C5_RequestFailedIffNoResponse ==
    \A t \in Tasks :
        Done(t) =>
            /\ tk[t].url \in DOMAIN remote
            /\ Got(t).kind = "error"
                  => (tk[t].result.tag = "Err" /\ tk[t].result.kind = RequestFailed)
            /\ Got(t).kind = "response"
                  => \/ tk[t].result.tag = "Ok"
                     \/ /\ tk[t].result.tag = "Err"
                        /\ tk[t].result.kind \in {ResponseUnsuccessful, FailedToDeserialize}

C5_Witness ==
    /\ Done(1)
    /\ Got(1).kind = "error"
    /\ tk[1].result = Err(RequestFailed, <<>>)

\* C6: the base URL is the override when one was given and
\* https://api.github.com otherwise, and every call, the first and every
\* later one, sends its GET to base URL + "/repos/" + path.
ConfiguredBase ==
    IF newArgs.base_url.some THEN newArgs.base_url.v ELSE <<"https://api.github.com">>

C6_RequestUrl ==
    /\ newOutcome = "Ok" => gapi.base_url = ConfiguredBase
    /\ \A t \in Tasks :
          tk[t].pc # "idle" => tk[t].url = ConfiguredBase \o <<"/repos/">> \o tk[t].path
    /\ \A h \in history : h.url = ConfiguredBase \o <<"/repos/">> \o h.path

C6_Witness ==
    /\ newArgs.base_url = Some(MockUri)
    /\ calls = MaxCalls
    /\ \E h \in history : h.url = <<"http://127.0.0.1:8080", "/repos/", "vagmi/gh-service">>
    /\ tk[1].pc = "send"
    /\ tk[1].url = <<"http://127.0.0.1:8080", "/repos/", "tarkalabs/ssh-signer">>

\* C7: repeated calls with the same path, against a remote end that answers
\* identically each time, return equal results: every call sends its own
\* request, and no call changes the client's base URL or default headers.
ConfiguredClient ==
    [base_url |-> ConfiguredBase,
     headers  |-> [Authorization |-> <<116, 111, 107, 101, 110, 32>> \o newArgs.api_key,
                   UserAgent     |-> <<"gh-api-service">>,
                   Accept        |-> <<"application/json">>]]

C7_RepeatedCallsAgree ==
    /\ \A h1, h2 \in history : h1.path = h2.path => h1.result = h2.result
    /\ \A t1, t2 \in Tasks :
          (Done(t1) /\ Done(t2) /\ tk[t1].path = tk[t2].path)
              => tk[t1].result = tk[t2].result
    /\ wire = calls
    /\ newOutcome = "Ok" => gapi = ConfiguredClient

C7_Witness ==
    /\ calls = MaxCalls
    /\ Done(1) /\ Done(2)
    /\ tk[1].path = P1 /\ tk[2].path = P1
    /\ tk[1].result = Ok(Repository(P1, None, HtmlUrl))
    /\ tk[2].result = tk[1].result
    /\ \E h \in history : h.path = P2

\* C8: calls running concurrently on one client are independent: each sends
\* its own path with the client's configuration, reads the response to its
\* own request, and ends with the outcome that response decides, whatever
\* the other calls are doing.
OutcomeFor(tmpl) ==
    IF tmpl.kind = "error" THEN Err(RequestFailed, <<>>)
    ELSE IF ~Is2xx(tmpl.status)
         THEN IF tmpl.readable THEN Err(ResponseUnsuccessful, <<tmpl.body>>)
              ELSE Err(FailedToDeserialize, <<>>)
         ELSE IF tmpl.readable /\ WellFormed(tmpl.body) /\ NamesOnce(tmpl.body)
              THEN Ok(Repository(
                      ValueAt(tmpl.body, CHOOSE i \in Places(tmpl.body, "full_name") : TRUE).s,
                      ExpectedDescription(tmpl.body),
                      ValueAt(tmpl.body, CHOOSE i \in Places(tmpl.body, "html_url") : TRUE).s))
              ELSE Err(FailedToDeserialize, <<>>)

C8_ConcurrentCallsIndependent ==
    \A t \in Tasks :
        /\ tk[t].pc # "idle" =>
              /\ gapi = ConfiguredClient
              /\ tk[t].url = gapi.base_url \o <<"/repos/">> \o tk[t].path
              /\ tk[t].headers = gapi.headers
        /\ tk[t].pc \in {"text", "json"} => tk[t].resp = Got(t)
        /\ Done(t) => tk[t].result = OutcomeFor(Got(t))

C8_Witness ==
    /\ tk[1].pc = "done" /\ tk[1].path = P1
    /\ tk[1].result = Ok(Repository(P1, None, HtmlUrl))
    /\ tk[2].pc = "text" /\ tk[2].path = P2
    /\ tk[2].resp = Response(404, TRUE, NotFoundBody)

\* C9: once the server is bound, every GET / is answered 200 "hello world",
\* however many requests came before or are pending, and the handler
\* answers no path other than /.
C9_RootSaysHelloWorld ==
    \A c \in DOMAIN conns :
        /\ conns[c].st # "none" => server = "serving"
        /\ (conns[c].st = "answered" /\ conns[c].method = "GET" /\ conns[c].path = "/")
              => (conns[c].status = 200 /\ conns[c].body = "hello world")
        /\ (conns[c].st = "answered" /\ conns[c].by = "handler") => conns[c].path = "/"

C9_Witness ==
    /\ conns[1].st = "answered" /\ conns[1].method = "GET" /\ conns[1].path = "/"
    /\ conns[1].body = "hello world"
    /\ conns[2].st = "answered" /\ conns[2].path = "/repos" /\ conns[2].status = 404
    /\ conns[3].st = "pending" /\ conns[3].method = "GET" /\ conns[3].path = "/"

\* C10: a response with a status outside 200-299 whose body cannot be read
\* makes the call fail with FailedToDeserialize, not ResponseUnsuccessful and
\* not RequestFailed.
C10_UnreadableErrorBody ==
    \A t \in Tasks :
        (Done(t) /\ Answered(t) /\ ~Is2xx(Got(t).status) /\ ~Got(t).readable)
            => tk[t].result = Err(FailedToDeserialize, <<>>)

C10_Witness ==
    /\ Done(1) /\ Answered(1)
    /\ Got(1).status = 404 /\ ~Got(1).readable
    /\ tk[1].result.kind = FailedToDeserialize

====
